---------------------------- MODULE Spec2Model ----------------------------
(***************************************************************************)
(* Model of rulesets/HEScoreRuleset/resources/make_lu_knee_wall_eff_rvalue *)
(* .py: main() reads the knee-wall assembly codes from the HEScore JSON    *)
(* schema, computes an effective R-value and U-value per code and writes   *)
(* the lookup table lu_knee_wall_eff_rvalue.csv.                           *)
(*                                                                         *)
(* Strings are sequences of one-character strings.  Python floats are IEEE *)
(* binary64 values; they are modelled bit-exactly as mantissa/exponent     *)
(* pairs over arbitrary-precision naturals (limb sequences), every         *)
(* operation rounding to nearest, ties to even, as the hardware does.      *)
(***************************************************************************)
EXTENDS Integers, Sequences, FiniteSets

(***************************************************************************)
(* Arbitrary-precision naturals: little-endian sequences of limbs in base  *)
(* 2^15, without leading zero limbs (zero is the empty sequence).  They    *)
(* carry the 53-bit mantissas of Python floats.                            *)
(***************************************************************************)
LimbBits == 15

RECURSIVE Pow2(_)
Pow2(k) == IF k = 0 THEN 1 ELSE 2 * Pow2(k - 1)

LimbBase == Pow2(LimbBits)

Limb(a, i) == IF i <= Len(a) THEN a[i] ELSE 0

RECURSIVE BigNorm(_)
BigNorm(a) ==
    IF a = <<>> THEN <<>>
    ELSE IF a[Len(a)] = 0 THEN BigNorm(SubSeq(a, 1, Len(a) - 1))
    ELSE a

RECURSIVE BigFromInt(_)
BigFromInt(n) ==
    IF n = 0 THEN <<>> ELSE <<n % LimbBase>> \o BigFromInt(n \div LimbBase)

RECURSIVE BigToInt(_)
BigToInt(a) ==
    IF a = <<>> THEN 0 ELSE a[1] + LimbBase * BigToInt(Tail(a))

RECURSIVE BigCmpFrom(_, _, _)
BigCmpFrom(a, b, i) ==
    IF i = 0 THEN 0
    ELSE IF a[i] < b[i] THEN -1
    ELSE IF a[i] > b[i] THEN 1
    ELSE BigCmpFrom(a, b, i - 1)

BigCmp(a, b) ==
    IF Len(a) < Len(b) THEN -1
    ELSE IF Len(a) > Len(b) THEN 1
    ELSE BigCmpFrom(a, b, Len(a))

RECURSIVE BigAddFrom(_, _, _, _)
BigAddFrom(a, b, i, carry) ==
    IF i > Len(a) /\ i > Len(b)
    THEN (IF carry = 0 THEN <<>> ELSE <<carry>>)
    ELSE LET s == Limb(a, i) + Limb(b, i) + carry
         IN  <<s % LimbBase>> \o BigAddFrom(a, b, i + 1, s \div LimbBase)

BigAdd(a, b) == BigAddFrom(a, b, 1, 0)

RECURSIVE BigSubFrom(_, _, _, _)
BigSubFrom(a, b, i, borrow) ==
    IF i > Len(a) THEN <<>>
    ELSE LET s == a[i] - Limb(b, i) - borrow
         IN  IF s < 0
             THEN <<s + LimbBase>> \o BigSubFrom(a, b, i + 1, 1)
             ELSE <<s>> \o BigSubFrom(a, b, i + 1, 0)

\* a - b for a >= b
BigSub(a, b) == BigNorm(BigSubFrom(a, b, 1, 0))

RECURSIVE BigMulSmallFrom(_, _, _, _)
BigMulSmallFrom(a, s, i, carry) ==
    IF i > Len(a)
    THEN (IF carry = 0 THEN <<>> ELSE <<carry>>)
    ELSE LET p == a[i] * s + carry
         IN  <<p % LimbBase>> \o BigMulSmallFrom(a, s, i + 1, p \div LimbBase)

\* a * s for a limb-sized s (0 <= s < 2^15)
BigMulSmall(a, s) == IF s = 0 THEN <<>> ELSE BigMulSmallFrom(a, s, 1, 0)

RECURSIVE BigMul(_, _)
BigMul(a, b) ==
    IF b = <<>> \/ a = <<>> THEN <<>>
    ELSE LET rest == BigMul(a, Tail(b))
         IN  BigAdd(BigMulSmall(a, b[1]),
                    IF rest = <<>> THEN <<>> ELSE <<0>> \o rest)

\* a * 2^k
BigShl(a, k) ==
    IF a = <<>> THEN <<>>
    ELSE [i \in 1..(k \div LimbBits) |-> 0] \o BigMulSmall(a, Pow2(k % LimbBits))

\* floor(a / 2^k)
BigShr(a, k) ==
    LET w == k \div LimbBits
        s == k % LimbBits
        b == IF w >= Len(a) THEN <<>> ELSE SubSeq(a, w + 1, Len(a))
    IN  BigNorm([i \in 1..Len(b) |->
                    (b[i] \div Pow2(s)) + (Limb(b, i + 1) % Pow2(s)) * Pow2(LimbBits - s)])

\* a mod 2^k
BigLowBits(a, k) ==
    LET w == k \div LimbBits
        s == k % LimbBits
    IN  BigNorm([i \in 1..(IF w + 1 < Len(a) THEN w + 1 ELSE Len(a)) |->
                    IF i <= w THEN a[i] ELSE a[i] % Pow2(s)])

RECURSIVE SmallBitLen(_)
SmallBitLen(n) == IF n = 0 THEN 0 ELSE 1 + SmallBitLen(n \div 2)

BigBitLen(a) ==
    IF a = <<>> THEN 0 ELSE (Len(a) - 1) * LimbBits + SmallBitLen(a[Len(a)])

\* bit i of a, bit 0 the least significant
BigBit(a, i) == (Limb(a, (i \div LimbBits) + 1) \div Pow2(i % LimbBits)) % 2

BigIsOdd(a) == a # <<>> /\ a[1] % 2 = 1

\* the one element of a singleton set.  LET x == e IN ... is evaluated anew
\* at every use of x; Only({ ... : x \in {e} }) evaluates e once
Only(S) == CHOOSE v \in S : TRUE

\* one step of schoolbook binary long division: bring down bit i of n
BigDivStep(n, d, st, i) ==
    Only({ IF BigCmp(r2, d) >= 0
           THEN [q |-> BigAdd(BigMulSmall(st.q, 2), <<1>>), r |-> BigSub(r2, d)]
           ELSE [q |-> BigMulSmall(st.q, 2), r |-> r2] :
           r2 \in { BigAdd(BigMulSmall(st.r, 2), BigFromInt(BigBit(n, i))) } })

\* the steps for bits hi, hi-1, ..., lo of n, split in halves
RECURSIVE BigDivRange(_, _, _, _, _)
BigDivRange(n, d, hi, lo, st) ==
    IF hi < lo THEN st
    ELSE IF hi = lo THEN BigDivStep(n, d, st, hi)
    ELSE Only({ BigDivRange(n, d, ((hi + lo + 1) \div 2) - 1, lo, upper) :
                upper \in { BigDivRange(n, d, hi, (hi + lo + 1) \div 2, st) } })

\* quotient and remainder of n by d (d > 0)
BigDivMod(n, d) ==
    IF n = <<>> THEN [q |-> <<>>, r |-> <<>>]
    ELSE BigDivRange(n, d, BigBitLen(n) - 1, 0, [q |-> <<>>, r |-> <<>>])

(***************************************************************************)
(* Python float: a finite non-negative IEEE binary64 number m * 2^e with a *)
(* 53-bit mantissa m; an empty mantissa is 0.0.  The values of this        *)
(* program stay between 2^-60 and 2^60, so exponent overflow, subnormals   *)
(* and signs do not occur.                                                 *)
(***************************************************************************)
MantBits == 53

FloatZero == [m |-> <<>>, e |-> 0]

\* mant * 2^e with the bits below mant given as low (of weight half = 1/2)
\* and sticky: round to nearest, ties to even, renormalise on carry
RoundUp(mant, low, half, sticky, e) ==
    Only({ IF BigBitLen(m2) > MantBits
           THEN [m |-> BigShr(m2, 1), e |-> e + 1]
           ELSE [m |-> m2, e |-> e] :
           m2 \in { IF low > half \/ (low = half /\ (sticky \/ BigIsOdd(mant)))
                    THEN BigAdd(mant, <<1>>)
                    ELSE mant } })

\* (q + fraction) * 2^e for a quotient q of MantBits + 2 or + 3 bits, whose
\* division left remainder r
RoundQuotient(q, r, e) ==
    LET drop == BigBitLen(q) - MantBits
    IN  Only({ RoundUp(mant, low, Pow2(drop - 1), r # <<>>, e + drop) :
               mant \in { BigShr(q, drop) },
               low  \in { BigToInt(BigLowBits(q, drop)) } })

\* (n / d) * 2^e with n or d scaled by 2^|k| so that the quotient has
\* MantBits + 2 or + 3 bits
RoundScaled(n, d, e, k) ==
    Only({ RoundQuotient(qr.q, qr.r, e - k) :
           qr \in { BigDivMod(IF k >= 0 THEN BigShl(n, k) ELSE n,
                              IF k >= 0 THEN d ELSE BigShl(d, 0 - k)) } })

\* the float nearest to (n / d) * 2^e, ties to even (d > 0)
RoundRatio(n, d, e) ==
    Only({ IF nn = <<>> \/ dd = <<>> THEN FloatZero
           ELSE RoundScaled(nn, dd, e, MantBits + 2 + BigBitLen(dd) - BigBitLen(nn)) :
           nn \in {n}, dd \in {d} })

\* float(n) for a Python int n >= 0, given as a limb sequence
FloatOfBig(n) == RoundRatio(n, <<1>>, 0)

FloatOfInt(n) == RoundRatio(BigFromInt(n), <<1>>, 0)

\* the float a decimal literal num/den denotes (0.68 is 68/100)
FloatLit(num, den) == RoundRatio(BigFromInt(num), BigFromInt(den), 0)

\* x / y for y # 0
FloatDiv(x, y) ==
    Only({ RoundRatio(a.m, b.m, a.e - b.e) : a \in {x}, b \in {y} })

FloatMul(x, y) ==
    Only({ RoundRatio(BigMul(a.m, b.m), <<1>>, a.e + b.e) : a \in {x}, b \in {y} })

\* a + b, both scaled to the exponent e = min(a.e, b.e)
AddAligned(a, b, e) ==
    RoundRatio(BigAdd(BigShl(a.m, a.e - e), BigShl(b.m, b.e - e)), <<1>>, e)

FloatAdd(x, y) ==
    Only({ IF a.m = <<>> THEN b
           ELSE IF b.m = <<>> THEN a
           ELSE AddAligned(a, b, IF a.e < b.e THEN a.e ELSE b.e) :
           a \in {x}, b \in {y} })

\* a - b for a >= b > 0
SubAligned(a, b, e) ==
    RoundRatio(BigSub(BigShl(a.m, a.e - e), BigShl(b.m, b.e - e)), <<1>>, e)

FloatSub(x, y) ==
    Only({ SubAligned(a, b, IF a.e < b.e THEN a.e ELSE b.e) : a \in {x}, b \in {y} })

\* -1, 0, 1 for x < y, x = y, x > y: mantissas are normalised, so the
\* exponent decides first
FloatCmp(x, y) ==
    IF x.m = <<>> \/ y.m = <<>>
    THEN (IF x.m = y.m THEN 0 ELSE IF x.m = <<>> THEN -1 ELSE 1)
    ELSE IF x.e < y.e THEN -1
    ELSE IF x.e > y.e THEN 1
    ELSE BigCmp(x.m, y.m)

(***************************************************************************)
(* Text.  A string is a sequence of one-character strings.                 *)
(***************************************************************************)
Digits == <<"0", "1", "2", "3", "4", "5", "6", "7", "8", "9">>

IsDigit(ch) == \E v \in 1..Len(Digits) : Digits[v] = ch

DigitValue(ch) == (CHOOSE v \in 1..Len(Digits) : Digits[v] = ch) - 1

RECURSIVE Pow10(_)
Pow10(k) == IF k = 0 THEN 1 ELSE 10 * Pow10(k - 1)

\* decimal digits of a natural number, at least one
RECURSIVE NatToStr(_)
NatToStr(n) ==
    IF n < 10 THEN <<Digits[n + 1]>>
    ELSE NatToStr(n \div 10) \o <<Digits[(n % 10) + 1]>>

\* the k low decimal digits of n, zero-padded
RECURSIVE FracToStr(_, _)
FracToStr(n, k) ==
    IF k = 0 THEN <<>>
    ELSE FracToStr(n \div 10, k - 1) \o <<Digits[(n % 10) + 1]>>

\* num / 2^k rounded to an integer, ties to even
RoundShift(num, k) ==
    Only({ IF c > 0 \/ (c = 0 /\ BigIsOdd(q)) THEN BigToInt(q) + 1 ELSE BigToInt(q) :
           q \in { BigShr(num, k) },
           c \in { BigCmp(BigLowBits(num, k), BigShl(<<1>>, k - 1)) } })

\* x * 10^prec rounded to an integer, ties to even, on the exact binary
\* value of x: the digits format(x, ".<prec>f") prints
ScaledRound(x, prec) ==
    Only({ IF a.m = <<>> THEN 0
           ELSE IF a.e >= 0 THEN BigToInt(BigShl(BigMulSmall(a.m, Pow10(prec)), a.e))
           ELSE Only({ RoundShift(num, 0 - a.e) :
                       num \in { BigMulSmall(a.m, Pow10(prec)) } }) :
           a \in {x} })

\* f"{x:.<prec>f}" for prec >= 1
FormatFixed(x, prec) ==
    Only({ NatToStr(n \div Pow10(prec)) \o <<".">> \o FracToStr(n % Pow10(prec), prec) :
           n \in { ScaledRound(x, prec) } })

(***************************************************************************)
(* csv.writer (default dialect) and the identifier pattern.                *)
(***************************************************************************)
Comma == ","
DQuote == "\""

\* QUOTE_MINIMAL: a field is quoted when it holds the delimiter, the quote
\* character or a line-terminator character
NeedsQuote(field) ==
    \E i \in 1..Len(field) : field[i] \in {Comma, DQuote, "\r", "\n"}

RECURSIVE DoubleQuotes(_)
DoubleQuotes(field) ==
    IF field = <<>> THEN <<>>
    ELSE (IF Head(field) = DQuote THEN <<DQuote, DQuote>> ELSE <<Head(field)>>)
         \o DoubleQuotes(Tail(field))

CsvField(field) ==
    IF NeedsQuote(field)
    THEN <<DQuote>> \o DoubleQuotes(field) \o <<DQuote>>
    ELSE field

\* the line csv_writer.writerow(fields) writes, without its terminator
RECURSIVE writerow(_)
writerow(fields) ==
    IF Len(fields) = 1 THEN CsvField(fields[1])
    ELSE CsvField(Head(fields)) \o <<Comma>> \o writerow(Tail(fields))

Kwwf == <<"k", "w", "w", "f">>

\* the longest run of digits of s that starts at position i
RECURSIVE DigitRun(_, _)
DigitRun(s, i) ==
    IF i <= Len(s) /\ IsDigit(s[i]) THEN <<s[i]>> \o DigitRun(s, i + 1) ELSE <<>>

\* variant: the pattern anchored at both ends, as re.fullmatch would
re_match_Full(assembly_code) ==
    IF /\ Len(assembly_code) > Len(Kwwf)
       /\ SubSeq(assembly_code, 1, Len(Kwwf)) = Kwwf
       /\ \A k \in (Len(Kwwf) + 1)..Len(assembly_code) : IsDigit(assembly_code[k])
    THEN SubSeq(assembly_code, Len(Kwwf) + 1, Len(assembly_code))
    ELSE <<>>

\* re.match(r"kwwf(\d+)", assembly_code): group(1), or <<>> for no match
\* (a match always captures at least one digit)
re_match(assembly_code) ==
    IF /\ Len(assembly_code) > Len(Kwwf)
       /\ SubSeq(assembly_code, 1, Len(Kwwf)) = Kwwf
    THEN DigitRun(assembly_code, Len(Kwwf) + 1)
    ELSE <<>>

\* int(digits): Python integers are unbounded
RECURSIVE int(_)
int(digits) ==
    IF digits = <<>> THEN <<>>
    ELSE BigAdd(BigMulSmall(int(SubSeq(digits, 1, Len(digits) - 1)), 10),
                BigFromInt(DigitValue(digits[Len(digits)])))

(***************************************************************************)
(* The constants and the formula of main().                                *)
(***************************************************************************)
int_air_film_r_value == FloatLit(68, 100)
gyp_r_value == FloatLit(45, 100)
wood_stud_r_value == FloatLit(438, 100)
stud_spacing == 16
wood_stud_width == FloatLit(35, 10)

HeaderRow ==
    << <<"d", "o", "e", "2", "c", "o", "d", "e">>,
       <<"U", "-", "v", "a", "l", "u", "e">>,
       <<"E", "f", "f", "-", "R", "-", "v", "a", "l", "u", "e">> >>

\* variant: one air film instead of two
base_r_value_OneFilm == FloatAdd(int_air_film_r_value, gyp_r_value)

\* line 31: 2 * int_air_film_r_value + gyp_r_value
base_r_value ==
    FloatAdd(FloatMul(FloatOfInt(2), int_air_film_r_value), gyp_r_value)

\* lines 34-35: wood_stud_width / stud_spacing
framing_fraction == FloatDiv(wood_stud_width, FloatOfInt(stud_spacing))

\* variant: the cavity path alone, the framing path left out
parallel_path_divisor_CavityOnly(cav_r_value) ==
    FloatDiv(FloatSub(FloatOfInt(1), framing_fraction), FloatOfBig(cav_r_value))

\* lines 34-35: the divisor of line 33 for a cavity value > 0 (a Python
\* int, given as a limb sequence)
parallel_path_divisor(cav_r_value) ==
    FloatAdd(FloatDiv(framing_fraction, wood_stud_r_value),
             FloatDiv(FloatSub(FloatOfInt(1), framing_fraction),
                      FloatOfBig(cav_r_value)))

\* variant: line 33 assigns (=) where the source accumulates (+=)
assembly_r_value_Assigned(cav_r_value) ==
    IF BigCmp(cav_r_value, <<>>) > 0
    THEN FloatDiv(FloatOfInt(1), parallel_path_divisor(cav_r_value))
    ELSE base_r_value

\* lines 31-36
assembly_r_value(cav_r_value) ==
    IF BigCmp(cav_r_value, <<>>) > 0
    THEN FloatAdd(base_r_value,
                  FloatDiv(FloatOfInt(1), parallel_path_divisor(cav_r_value)))
    ELSE base_r_value

\* variant: the reciprocal of the layers' resistance, not of the total
assembly_u_value_OfLayers(r_value) == FloatDiv(FloatOfInt(1), base_r_value)

\* line 37
assembly_u_value(r_value) == FloatDiv(FloatOfInt(1), r_value)

\* line 38: the fields of the data row
DataRow(assembly_code, u_value, r_value) ==
    <<assembly_code, FormatFixed(u_value, 3), FormatFixed(r_value, 1)>>

\* lines 37-38 for the resistance r of cavity value cav
RowFor(assembly_code, cav, r) ==
    Only({ [matched |-> TRUE, cav_r_value |-> cav,
            assembly_r_value |-> r, assembly_u_value |-> u,
            line |-> writerow(DataRow(assembly_code, u, r))] :
           u \in { assembly_u_value(r) } })

\* lines 31-38 for the cavity value cav
Iteration(assembly_code, cav_r_value) ==
    Only({ RowFor(assembly_code, cav, assembly_r_value(cav)) : cav \in {cav_r_value} })

\* one pass through the loop body, lines 30-38, for one identifier
LoopBody(assembly_code) ==
    Only({ IF digits = <<>>
           THEN [matched |-> FALSE, cav_r_value |-> <<>>,
                 assembly_r_value |-> FloatZero,
                 assembly_u_value |-> FloatZero, line |-> <<>>]
           ELSE Iteration(assembly_code, int(digits)) :
           digits \in { re_match(assembly_code) } })

(***************************************************************************)
(* The environment of a run: the schema document and the output file.      *)
(***************************************************************************)
MaxCodes == 3
MaxRuns == 2
MaxCavity == 40

\* identifiers the schema's assembly_code enum may hold: well-formed ones
\* (zero, leading zeros, trailing text with a delimiter, large values) and
\* malformed ones (no digit, prefix not at the start, prefix without digit)
AssemblyCodePool ==
    { Kwwf \o <<"0">>,
      Kwwf \o <<"0", "0">>,
      Kwwf \o <<"1", "3">>,
      Kwwf \o <<"0", "1", "3", ",", "x">>,
      Kwwf \o <<"2", "3", "7", "2", "8", "8", "1", "3", "9">>,
      Kwwf \o <<"2", "3", "7", "2", "8", "8", "1", "4", "0">>,
      Kwwf \o <<"7", "5", "0", "5", "9", "9", "9", "3", "7", "8", "9", "5", "0", "8", "2", "8", "0">>,
      Kwwf,
      <<"x">> \o Kwwf \o <<"1", "3">>,
      Kwwf \o <<"x", "1">> }

\* the identifiers of ordinary cavity values, 0 to MaxCavity
RegularCodes == { Kwwf \o NatToStr(c) : c \in 0..MaxCavity }

\* the loop body's outcome for every identifier a schema may hold
LoopBodyOf == [code \in AssemblyCodePool \cup RegularCodes |-> LoopBody(code)]

\* the enum lists of a schema: up to MaxCodes identifiers of the pool, or a
\* pair of ordinary identifiers
CodeLists ==
    UNION { [1..n -> AssemblyCodePool] : n \in 0..MaxCodes }
        \cup { <<a, b>> : a \in RegularCodes, b \in RegularCodes }

\* what lu_knee_wall_eff_rvalue.csv may hold before a run: no file, a file
\* of foreign text, a table left by an earlier schema
PriorFiles ==
    { [exists |-> FALSE, lines |-> <<>>],
      [exists |-> TRUE,  lines |-> << <<"s", "t", "a", "l", "e">> >>],
      [exists |-> TRUE,  lines |-> <<writerow(HeaderRow),
                                     LoopBodyOf[Kwwf \o <<"1", "3">>].line>>] }

VARIABLES
    schema,                    \* "absent", "malformed" or "valid"
    knee_wall_assembly_codes,  \* the enum list of a valid schema document
    csv_file,                  \* the output file: [exists, lines]
    handle,                    \* the csv file object f: "none", "open", "closed"
    pc,                        \* where main() is, or the exception that ended it
    idx,                       \* identifiers the for loop has consumed
    computed,                  \* the loop's locals, one record per iteration
    runs,                      \* invocations started so far
    last_table                 \* the file as the last completed run left it

vars == <<schema, knee_wall_assembly_codes, csv_file, handle, pc, idx,
          computed, runs, last_table>>

env == <<schema, knee_wall_assembly_codes>>

Init ==
    /\ schema \in {"absent", "malformed", "valid"}
    /\ knee_wall_assembly_codes \in
           IF schema = "valid" THEN CodeLists ELSE {<<>>}
    /\ csv_file \in PriorFiles
    /\ handle = "none"
    /\ pc = "start"
    /\ idx = 0
    /\ computed = <<>>
    /\ runs = 1
    /\ last_table = [valid |-> FALSE, lines |-> <<>>]

\* variant: the output file opened for writing ahead of the existence check
AssertExists_AfterOpen ==
    /\ pc = "start"
    /\ pc' = IF schema = "absent" THEN "AssertionError" ELSE "checked"
    /\ csv_file' = [exists |-> TRUE, lines |-> <<>>]
    /\ UNCHANGED <<env, handle, idx, computed, runs, last_table>>

\* line 10: assert json_schema_filename.exists()
AssertExists ==
    /\ pc = "start"
    /\ pc' = IF schema = "absent" THEN "AssertionError" ELSE "checked"
    /\ UNCHANGED <<env, csv_file, handle, idx, computed, runs, last_table>>

\* lines 12-15: json.load and the path to the enum; a document that is not
\* the expected JSON ends the run here
LoadSchema ==
    /\ pc = "checked"
    /\ pc' = IF schema = "valid" THEN "loaded" ELSE "LoadError"
    /\ UNCHANGED <<env, csv_file, handle, idx, computed, runs, last_table>>

\* variant: open('a'), which keeps what the file held
OpenCsv_Append ==
    /\ pc = "loaded"
    /\ csv_file' = [exists |-> TRUE, lines |-> csv_file.lines]
    /\ handle' = "open"
    /\ pc' = "opened"
    /\ UNCHANGED <<env, idx, computed, runs, last_table>>

\* line 26: csv_filename.open('w') creates or truncates the file
OpenCsv ==
    /\ pc = "loaded"
    /\ csv_file' = [exists |-> TRUE, lines |-> <<>>]
    /\ handle' = "open"
    /\ pc' = "opened"
    /\ UNCHANGED <<env, idx, computed, runs, last_table>>

\* lines 27-28: the header row
WriteHeader ==
    /\ pc = "opened"
    /\ handle = "open"
    /\ csv_file' = [csv_file EXCEPT !.lines = Append(@, writerow(HeaderRow))]
    /\ pc' = "loop"
    /\ UNCHANGED <<env, handle, idx, computed, runs, last_table>>

\* variant: the loop walks the list from its end
LoopIteration_Reversed ==
    /\ pc = "loop"
    /\ idx < Len(knee_wall_assembly_codes)
    /\ LoopBodyOf[knee_wall_assembly_codes[idx + 1]].matched
    /\ LET body == LoopBodyOf[knee_wall_assembly_codes[Len(knee_wall_assembly_codes) - idx]]
       IN  /\ body.matched
           /\ handle = "open"
           /\ computed' = Append(computed,
                  [cav_r_value |-> body.cav_r_value,
                   assembly_r_value |-> body.assembly_r_value,
                   assembly_u_value |-> body.assembly_u_value])
           /\ csv_file' = [csv_file EXCEPT !.lines = Append(@, body.line)]
    /\ idx' = idx + 1
    /\ UNCHANGED <<env, handle, pc, runs, last_table>>

\* lines 29-38: one iteration for an identifier the pattern matches
LoopIteration ==
    /\ pc = "loop"
    /\ idx < Len(knee_wall_assembly_codes)
    /\ LET body == LoopBodyOf[knee_wall_assembly_codes[idx + 1]]
       IN  /\ body.matched
           /\ handle = "open"
           /\ computed' = Append(computed,
                  [cav_r_value |-> body.cav_r_value,
                   assembly_r_value |-> body.assembly_r_value,
                   assembly_u_value |-> body.assembly_u_value])
           /\ csv_file' = [csv_file EXCEPT !.lines = Append(@, body.line)]
    /\ idx' = idx + 1
    /\ UNCHANGED <<env, handle, pc, runs, last_table>>

\* variant: the file opened without the with block, so an exception leaves
\* it open
LoopRaise_Unscoped ==
    /\ pc = "loop"
    /\ idx < Len(knee_wall_assembly_codes)
    /\ ~LoopBodyOf[knee_wall_assembly_codes[idx + 1]].matched
    /\ pc' = "AttributeError"
    /\ UNCHANGED <<env, csv_file, handle, idx, computed, runs, last_table>>

\* line 30 on an identifier the pattern does not match: re.match returns
\* None, .group raises AttributeError, the with block closes f on the way out
LoopRaise ==
    /\ pc = "loop"
    /\ idx < Len(knee_wall_assembly_codes)
    /\ ~LoopBodyOf[knee_wall_assembly_codes[idx + 1]].matched
    /\ handle' = "closed"
    /\ pc' = "AttributeError"
    /\ UNCHANGED <<env, csv_file, idx, computed, runs, last_table>>

\* the for loop is exhausted: the with block closes f and main() returns
LoopExit ==
    /\ pc = "loop"
    /\ idx = Len(knee_wall_assembly_codes)
    /\ handle' = "closed"
    /\ pc' = "done"
    /\ UNCHANGED <<env, csv_file, idx, computed, runs, last_table>>

Ended == pc \in {"done", "AssertionError", "LoadError", "AttributeError"}

\* the script is run again on the same schema document
Rerun ==
    /\ Ended
    /\ runs < MaxRuns
    /\ runs' = runs + 1
    /\ last_table' = IF pc = "done"
                     THEN [valid |-> TRUE, lines |-> csv_file.lines]
                     ELSE [valid |-> FALSE, lines |-> <<>>]
    /\ pc' = "start"
    /\ handle' = "none"
    /\ idx' = 0
    /\ computed' = <<>>
    /\ UNCHANGED <<env, csv_file>>

Next ==
    \/ AssertExists
    \/ LoadSchema
    \/ OpenCsv
    \/ WriteHeader
    \/ LoopIteration
    \/ LoopRaise
    \/ LoopExit
    \/ Rerun

Spec == Init /\ [][Next]_vars

(***************************************************************************)
(* Reading the table back: csv.reader (default dialect) on one line, and   *)
(* the number a fixed-point field prints.                                  *)
(***************************************************************************)
\* the text of a quoted field whose content starts at position i, and the
\* position after its closing quote
RECURSIVE ReadQuoted(_, _)
ReadQuoted(line, i) ==
    IF i > Len(line) THEN [text |-> <<>>, next |-> i]
    ELSE IF line[i] = DQuote /\ i < Len(line) /\ line[i + 1] = DQuote
    THEN Only({ [text |-> <<DQuote>> \o r.text, next |-> r.next] :
                r \in { ReadQuoted(line, i + 2) } })
    ELSE IF line[i] = DQuote THEN [text |-> <<>>, next |-> i + 1]
    ELSE Only({ [text |-> <<line[i]>> \o r.text, next |-> r.next] :
                r \in { ReadQuoted(line, i + 1) } })

\* the text of an unquoted field that starts at position i, and the position
\* of the delimiter that ends it
RECURSIVE ReadPlain(_, _)
ReadPlain(line, i) ==
    IF i > Len(line) \/ line[i] = Comma THEN [text |-> <<>>, next |-> i]
    ELSE Only({ [text |-> <<line[i]>> \o r.text, next |-> r.next] :
                r \in { ReadPlain(line, i + 1) } })

\* the fields of the line from position i on
RECURSIVE CsvFieldsFrom(_, _)
CsvFieldsFrom(line, i) ==
    Only({ IF f.next > Len(line) THEN <<f.text>>
           ELSE <<f.text>> \o CsvFieldsFrom(line, f.next + 1) :
           f \in { IF i <= Len(line) /\ line[i] = DQuote
                   THEN ReadQuoted(line, i + 1)
                   ELSE ReadPlain(line, i) } })

CsvFields(line) == CsvFieldsFrom(line, 1)

\* the integer a field "d.ddd" with prec decimals denotes, times 10^prec
RECURSIVE DecimalDigitsValue(_)
DecimalDigitsValue(text) ==
    IF text = <<>> THEN 0
    ELSE IF text[Len(text)] = "."
    THEN DecimalDigitsValue(SubSeq(text, 1, Len(text) - 1))
    ELSE 10 * DecimalDigitsValue(SubSeq(text, 1, Len(text) - 1))
         + DigitValue(text[Len(text)])

(***************************************************************************)
(* Vocabulary of the properties.                                           *)
(***************************************************************************)
\* the naming pattern, stated on the text: "kwwf" at the start, then a digit
WellFormed(code) ==
    /\ Len(code) >= 5
    /\ \A i \in 1..4 : code[i] = Kwwf[i]
    /\ IsDigit(code[5])

AllWellFormed(codes) == \A i \in 1..Len(codes) : WellFormed(codes[i])

HeaderLine == writerow(HeaderRow)

\* the table for a list of identifiers: the header, then one row each
ExpectedTable(codes) ==
    <<HeaderLine>> \o [i \in 1..Len(codes) |-> LoopBodyOf[codes[i]].line]

RunStep ==
    \/ AssertExists
    \/ LoadSchema
    \/ OpenCsv
    \/ WriteHeader
    \/ LoopIteration
    \/ LoopRaise
    \/ LoopExit

\* how far a run has come; every step of a run raises it
Rank ==
    CASE pc = "start"   -> 0
      [] pc = "checked" -> 1
      [] pc = "loaded"  -> 2
      [] pc = "opened"  -> 3
      [] pc = "loop"    -> 4 + idx
      [] OTHER          -> 5 + Len(knee_wall_assembly_codes)

InTable == pc \in {"loop", "done", "AttributeError"}

(***************************************************************************)
(* C1.  For a list of identifiers that all match the pattern, a run ends   *)
(* (no step is stuck, every step makes progress, no exception) with the    *)
(* file holding the header row exactly once, as its first row, then one    *)
(* data row per identifier in input order; while the loop runs, after k    *)
(* iterations the data rows are those of the first k identifiers.          *)
(***************************************************************************)
C1_Rows ==
    /\ InTable =>
          /\ csv_file.exists
          /\ Len(csv_file.lines) = idx + 1
          /\ csv_file.lines[1] = HeaderLine
          /\ \A i \in 1..idx :
                /\ csv_file.lines[i + 1] # HeaderLine
                /\ Len(CsvFields(csv_file.lines[i + 1])) = 3
                /\ CsvFields(csv_file.lines[i + 1])[1] = knee_wall_assembly_codes[i]
    /\ pc = "done" => idx = Len(knee_wall_assembly_codes)
    /\ (schema = "valid" /\ AllWellFormed(knee_wall_assembly_codes)) =>
          /\ pc \notin {"AssertionError", "LoadError", "AttributeError"}
          /\ pc # "done" => ENABLED RunStep

C2_FatalAtIdentifier ==
    /\ \A i \in 1..idx : WellFormed(knee_wall_assembly_codes[i])
    /\ Len(computed) = idx
    /\ ~AllWellFormed(knee_wall_assembly_codes) => pc # "done"
    /\ pc = "AttributeError" =>
          /\ idx < Len(knee_wall_assembly_codes)
          /\ ~WellFormed(knee_wall_assembly_codes[idx + 1])

C2_NoPartialOutput ==
    /\ C2_FatalAtIdentifier
    /\ pc = "AttributeError" =>
          csv_file.lines # ExpectedTable(SubSeq(knee_wall_assembly_codes, 1, idx))

(***************************************************************************)
(* C3.  With the schema document absent the run ends with AssertionError   *)
(* at the existence check: the output file is never opened, no row is      *)
(* computed, and the file (its existence and content) is never changed.    *)
(***************************************************************************)
C3_AbsentState ==
    schema = "absent" =>
        /\ pc \in {"start", "AssertionError"}
        /\ handle = "none"
        /\ computed = <<>>
        /\ idx = 0

C3_AbsentSchemaLeavesFile ==
    /\ [](C3_AbsentState)
    /\ [][schema = "absent" => csv_file' = csv_file]_vars
    /\ [][(schema = "absent" /\ AssertExists) => pc' = "AssertionError"]_vars

C3_Witness ==
    /\ schema = "absent"
    /\ pc = "AssertionError"
    /\ runs = 2
    /\ csv_file.exists
    /\ Len(csv_file.lines) = 2

(***************************************************************************)
(* C4.  A completed run leaves the file holding a table that is a function *)
(* of the identifier list alone, whatever the file held before, and a      *)
(* second run on the same list leaves the same content.                    *)
(***************************************************************************)
C4_Idempotent ==
    pc = "done" =>
        /\ csv_file.exists
        /\ csv_file.lines = ExpectedTable(knee_wall_assembly_codes)
        /\ last_table.valid => csv_file.lines = last_table.lines

C4_Witness ==
    /\ pc = "done"
    /\ runs = 2
    /\ last_table.valid
    /\ Len(knee_wall_assembly_codes) = 2

(***************************************************************************)
(* C5.  The file object is open exactly between the open and the end of    *)
(* the with block; it is closed on both exits of the block (loop exhausted *)
(* or AttributeError); the file changes only at the open and while open.   *)
(***************************************************************************)
C5_HandleState ==
    /\ pc \in {"start", "checked", "loaded", "AssertionError", "LoadError"}
          => handle = "none"
    /\ pc \in {"opened", "loop"} => handle = "open"
    /\ pc \in {"done", "AttributeError"} => handle = "closed"

C5_ScopedFile ==
    /\ [](C5_HandleState)
    /\ [][csv_file' # csv_file =>
             /\ handle' = "open"
             /\ handle = "open" \/ (handle = "none" /\ csv_file'.lines = <<>>)]_vars
    /\ [][(handle = "open" /\ handle' # "open") =>
             (handle' = "closed" /\ csv_file' = csv_file)]_vars

C5_Witness ==
    /\ pc = "AttributeError"
    /\ handle = "closed"
    /\ idx = 1


\* the fields of the data row that iteration i wrote
RowFields(i) == CsvFields(csv_file.lines[i + 1])

\* the digits right after "kwwf", up to the first character that is no digit
MaximalDigits(code) ==
    SubSeq(code, 5,
           CHOOSE j \in 4..Len(code) :
               /\ \A k \in 5..j : IsDigit(code[k])
               /\ j = Len(code) \/ ~IsDigit(code[j + 1]))

\* an identifier whose digits after "kwwf" are all zeros
CavityZeroText(code) ==
    /\ WellFormed(code)
    /\ \A k \in 1..Len(MaximalDigits(code)) : MaximalDigits(code)[k] = "0"

(***************************************************************************)
(* C6.  An identifier whose cavity resistance is 0 (leading zeros too) has *)
(* the resistance 0.68 + 0.68 + 0.45 exactly, which is the double 1.81,    *)
(* nothing added for the parallel path, and its row reads conductance      *)
(* "0.552" and resistance "1.8".                                           *)
(***************************************************************************)
C6_SumOfLayers ==
    FloatAdd(FloatAdd(FloatLit(68, 100), FloatLit(68, 100)), FloatLit(45, 100))

\* the double nearest to 1.81
C6_Double181 == FloatLit(181, 100)

C6_CavityZeroRow ==
    InTable =>
        \A i \in 1..idx :
            CavityZeroText(knee_wall_assembly_codes[i]) =>
                /\ computed[i].cav_r_value = <<>>
                /\ computed[i].assembly_r_value = C6_SumOfLayers
                /\ computed[i].assembly_r_value = C6_Double181
                /\ RowFields(i)[2] = <<"0", ".", "5", "5", "2">>
                /\ RowFields(i)[3] = <<"1", ".", "8">>

C6_Witness ==
    /\ pc = "done"
    /\ Len(knee_wall_assembly_codes) = 2
    /\ knee_wall_assembly_codes[1] = Kwwf \o <<"0", "0">>
    /\ knee_wall_assembly_codes[2] = Kwwf \o <<"0">>

(***************************************************************************)
(* C7.  As claimed: an identifier of cavity resistance 13 has the          *)
(* resistance 0.68+0.68+0.45 + 1/((3.5/16/4.38) + ((1-3.5/16)/13)), and    *)
(* its row reads resistance "13.0" and conductance "0.077".                *)
(***************************************************************************)
C7_Formula ==
    FloatAdd(C6_SumOfLayers,
        FloatDiv(FloatOfInt(1),
            FloatAdd(FloatDiv(FloatDiv(FloatLit(35, 10), FloatOfInt(16)),
                              FloatLit(438, 100)),
                     FloatDiv(FloatSub(FloatOfInt(1),
                                       FloatDiv(FloatLit(35, 10), FloatOfInt(16))),
                              FloatOfInt(13)))))

C7_Thirteen == BigFromInt(13)

C7_IsCavity13(i) == computed[i].cav_r_value = C7_Thirteen

C7_ClaimedRow ==
    InTable =>
        \A i \in 1..idx :
            C7_IsCavity13(i) =>
                /\ computed[i].assembly_r_value = C7_Formula
                /\ RowFields(i)[3] = <<"1", "3", ".", "0">>
                /\ RowFields(i)[2] = <<"0", ".", "0", "7", "7">>

(***************************************************************************)
(* C7, amended.  An identifier of cavity resistance 13 has the resistance  *)
(* 0.68+0.68+0.45 + 1/((3.5/16/4.38) + ((1-3.5/16)/13)), about 10.898 (as  *)
(* a fraction, 100 times it is 181 + 145766400/160400, between 1085 and    *)
(* 1095), and its row reads resistance "10.9" and conductance "0.092".     *)
(***************************************************************************)
C7_Cavity13Row ==
    /\ 904 * 160400 <= 145766400
    /\ 145766400 < 914 * 160400
    /\ InTable =>
          \A i \in 1..idx :
              C7_IsCavity13(i) =>
                  /\ computed[i].assembly_r_value = C7_Formula
                  /\ RowFields(i)[3] = <<"1", "0", ".", "9">>
                  /\ RowFields(i)[2] = <<"0", ".", "0", "9", "2">>

C7_Witness ==
    /\ pc = "done"
    /\ Len(knee_wall_assembly_codes) = 2
    /\ knee_wall_assembly_codes[1] = Kwwf \o <<"1", "3">>
    /\ knee_wall_assembly_codes[2] = Kwwf \o <<"0", "1", "3", ",", "x">>

(***************************************************************************)
(* C8.  In every row of an identifier with cavity resistance > 0 the       *)
(* printed conductance U (3 decimals) and resistance R (1 decimal) satisfy *)
(* |U*R - 1| <= 0.0005*R + 0.05*U + 0.000025; with u = 1000 U and          *)
(* r = 10 R that is |4ur - 40000| <= 2r + 2u + 1.                          *)
(***************************************************************************)
C8_Gap(u, r) == IF 4 * u * r >= 40000 THEN 4 * u * r - 40000 ELSE 40000 - 4 * u * r

C8_Reciprocal ==
    InTable =>
        \A i \in 1..idx :
            computed[i].cav_r_value # <<>> =>
                C8_Gap(DecimalDigitsValue(RowFields(i)[2]),
                       DecimalDigitsValue(RowFields(i)[3]))
                    <= 2 * DecimalDigitsValue(RowFields(i)[3])
                       + 2 * DecimalDigitsValue(RowFields(i)[2]) + 1

C8_Witness ==
    /\ pc = "done"
    /\ Len(knee_wall_assembly_codes) = 2
    /\ knee_wall_assembly_codes[1] = Kwwf \o <<"1">>
    /\ knee_wall_assembly_codes[2] = Kwwf \o <<"3", "8">>
    /\ DecimalDigitsValue(RowFields(2)[2]) > 0


ParallelPathDivisorOf ==
    [code \in { c \in DOMAIN LoopBodyOf :
                    LoopBodyOf[c].matched /\ LoopBodyOf[c].cav_r_value # <<>> } |->
        parallel_path_divisor(LoopBodyOf[code].cav_r_value)]

\* 1.81 + 4.38*16/3.5 in double arithmetic
C10_UpperBound ==
    FloatAdd(C6_Double181,
             FloatDiv(FloatMul(FloatLit(438, 100), FloatOfInt(16)), FloatLit(35, 10)))

C10_NoZeroDivisor ==
    \A i \in 1..idx :
        /\ computed[i].assembly_r_value # FloatZero
        /\ computed[i].cav_r_value # <<>> =>
              ParallelPathDivisorOf[knee_wall_assembly_codes[i]] # FloatZero

(***************************************************************************)
(* C10.  As claimed: the computed resistance R is strictly increasing in   *)
(* the cavity resistance, 1.81 <= R(c) < 1.81 + 4.38*16/3.5 for every c,   *)
(* the conductance is strictly decreasing and positive, and no division    *)
(* has a zero divisor.                                                     *)
(***************************************************************************)
C10_StrictlyIncreasing ==
    InTable =>
        /\ C10_NoZeroDivisor
        /\ \A i \in 1..idx :
              /\ FloatCmp(C6_Double181, computed[i].assembly_r_value) <= 0
              /\ FloatCmp(computed[i].assembly_r_value, C10_UpperBound) < 0
              /\ FloatCmp(computed[i].assembly_u_value, FloatZero) > 0
              /\ \A j \in 1..idx :
                    BigCmp(computed[i].cav_r_value, computed[j].cav_r_value) < 0 =>
                        /\ FloatCmp(computed[i].assembly_r_value,
                                    computed[j].assembly_r_value) < 0
                        /\ FloatCmp(computed[i].assembly_u_value,
                                    computed[j].assembly_u_value) > 0

(***************************************************************************)
(* C10, amended.  The computed resistance R never decreases as the cavity  *)
(* resistance grows, and is strictly increasing over the cavity            *)
(* resistances 0 to MaxCavity; 1.81 <= R(c) <= the double value of         *)
(* 1.81 + 4.38*16/3.5 for every c; the conductance never increases, is     *)
(* strictly decreasing over 0 to MaxCavity, and is positive; no division   *)
(* has a zero divisor.                                                     *)
(***************************************************************************)
C10_MaxCavity == BigFromInt(MaxCavity)

C10_Ordinary(i) == BigCmp(computed[i].cav_r_value, C10_MaxCavity) <= 0

C10_NonDecreasing ==
    InTable =>
        /\ C10_NoZeroDivisor
        /\ \A i \in 1..idx :
              /\ FloatCmp(C6_Double181, computed[i].assembly_r_value) <= 0
              /\ FloatCmp(computed[i].assembly_r_value, C10_UpperBound) <= 0
              /\ FloatCmp(computed[i].assembly_u_value, FloatZero) > 0
              /\ \A j \in 1..idx :
                    BigCmp(computed[i].cav_r_value, computed[j].cav_r_value) < 0 =>
                        /\ FloatCmp(computed[i].assembly_r_value,
                                    computed[j].assembly_r_value) <= 0
                        /\ FloatCmp(computed[i].assembly_u_value,
                                    computed[j].assembly_u_value) >= 0
                        /\ (C10_Ordinary(i) /\ C10_Ordinary(j)) =>
                              /\ FloatCmp(computed[i].assembly_r_value,
                                          computed[j].assembly_r_value) < 0
                              /\ FloatCmp(computed[i].assembly_u_value,
                                          computed[j].assembly_u_value) > 0

C10_Witness ==
    /\ pc = "done"
    /\ Len(knee_wall_assembly_codes) = 3
    /\ knee_wall_assembly_codes[1] = Kwwf \o <<"2", "3", "7", "2", "8", "8", "1", "3", "9">>
    /\ knee_wall_assembly_codes[2] = Kwwf \o <<"2", "3", "7", "2", "8", "8", "1", "4", "0">>
    /\ computed[1].assembly_r_value = computed[2].assembly_r_value
    /\ computed[3].assembly_r_value = C10_UpperBound

=============================================================================
